---- MODULE Spec2Model ----
(***************************************************************************)
(* A model of src/main.cpp: the name-keyed Container<T>, the               *)
(* ContainerWithMaxCapacity<T> admission check, Character health           *)
(* arithmetic, the role verbs attack / drink / cast and the FantasyStory   *)
(* command loop.                                                           *)
(*                                                                         *)
(* Five specifications share the variables; each leaves the variables of   *)
(* the others at their idle values:                                        *)
(*   SpecContainer  one ContainerWithMaxCapacity<T> under add/remove/find  *)
(*   SpecCharacter  one Character under takeDamage / heal                  *)
(*   SpecRoles      a Fighter and a Character under attack / drink         *)
(*   SpecCast       a SpellUser and a Character under cast                 *)
(*   SpecStory      FantasyStory(): the constructor and its command loop   *)
(***************************************************************************)
EXTENDS Integers, FiniteSets, Sequences, TLC

\* ------------------------------------------------------------- bounds --
\* Width of the modelled machine int (the program's int has 32 bits).
IntWidth == 3
\* Largest non-garbage value the never-initialised maxCapacity is drawn from.
MaxCap == 2
\* Largest payload (damage, healValue, generic value) of an item.
MaxValue == 2

\* ----------------------------------------------------------- integers --
IntMin == -(2 ^ (IntWidth - 1))
IntMax == (2 ^ (IntWidth - 1)) - 1
IntRange == IntMin .. IntMax

\* Two's-complement wrap of a mathematical integer to the machine int.
WrapInt(x) == ((x - IntMin) % (2 ^ IntWidth)) + IntMin

\* Conversion of an int to size_t (twice as wide, unsigned), as done by the
\* usual arithmetic conversions in `elements.size() == maxCapacity`.
ToSizeT(n) == n % (2 ^ (2 * IntWidth))

\* ------------------------------------------------------------- items ---
ItemNames == {"a", "b", "c"}
Values == 1 .. MaxValue

\* A generic T of Container<T>: what PhysicalItem::getName() returns plus a
\* kind-specific payload.
Items == [name : ItemNames, value : Values]

\* The object `return NULL` yields in Container<T>::find(std::string): no
\* stored item, distinct from every item.
NULL == [name |-> "NULL"]

getName(item) == item.name

EmptyMap == [k \in {} |-> NULL]

size(els) == Cardinality(DOMAIN els)

\* ------------------------------------------------------- Container<T> --
\* std::map::operator[] then assignment: insert or overwrite under the name.
Container_add_insertOnly(els, item) ==
    IF getName(item) \in DOMAIN els
    THEN els
    ELSE [k \in DOMAIN els \cup {getName(item)} |->
            IF k = getName(item) THEN item ELSE els[k]]

Container_add_emptyKey(els, item) ==
    [k \in DOMAIN els \cup {""} |-> IF k = "" THEN item ELSE els[k]]

Container_add_dropOthersOnCollision(els, item) ==
    IF getName(item) \in DOMAIN els
    THEN [k \in {getName(item)} |-> item]
    ELSE [k \in DOMAIN els \cup {getName(item)} |->
            IF k = getName(item) THEN item ELSE els[k]]

Container_add(els, item) ==
    LET itemName == getName(item)
    IN  [k \in DOMAIN els \cup {itemName} |->
            IF k = itemName THEN item ELSE els[k]]

\* bool Container<T>::find(T): elements.contains(item.getName()).
Container_find_T_wholeItem(els, item) ==
    getName(item) \in DOMAIN els /\ els[getName(item)] = item

Container_find_T(els, item) == getName(item) \in DOMAIN els

\* T Container<T>::find(std::string): the stored item, or NULL on a miss.
Container_find_string(els, name) ==
    IF name \in DOMAIN els THEN els[name] ELSE NULL

\* `!find(name)` in remove(std::string): true of the NULL object only.
Not(found) == found = NULL

erase(els, name) == [k \in DOMAIN els \ {name} |-> els[k]]

\* Container<T>::remove(T): [threw, elements after].
Container_remove_T(els, item) ==
    IF size(els) = 0 \/ ~Container_find_T(els, item)
    THEN [threw |-> "NotFound", elements |-> els]
    ELSE [threw |-> "none", elements |-> erase(els, getName(item))]

\* Container<T>::remove(std::string): [threw, elements after].
Container_remove_string(els, name) ==
    IF size(els) = 0 \/ Not(Container_find_string(els, name))
    THEN [threw |-> "NotFound", elements |-> els]
    ELSE [threw |-> "none", elements |-> erase(els, name)]

\* ------------------------------------------ ContainerWithMaxCapacity<T> --
ContainerWithMaxCapacity_add_greaterThan(els, cap, item) ==
    IF ToSizeT(size(els)) > ToSizeT(cap)
    THEN [threw |-> "CapacityExceeded", elements |-> els]
    ELSE [threw |-> "none", elements |-> Container_add(els, item)]

ContainerWithMaxCapacity_add_unlessKey(els, cap, item) ==
    IF ToSizeT(size(els)) = ToSizeT(cap) /\ getName(item) \notin DOMAIN els
    THEN [threw |-> "CapacityExceeded", elements |-> els]
    ELSE [threw |-> "none", elements |-> Container_add(els, item)]

\* ContainerWithMaxCapacity<T>::add: [threw, elements after].
ContainerWithMaxCapacity_add(els, cap, item) ==
    IF ToSizeT(size(els)) = ToSizeT(cap)
    THEN [threw |-> "CapacityExceeded", elements |-> els]
    ELSE [threw |-> "none", elements |-> Container_add(els, item)]

\* The values the never-initialised int maxCapacity may hold: the class has
\* no constructor, so the field is whatever the storage held.
CapValues == -1 .. MaxCap

\* -------------------------------------------------------- Character ----
Character_takeDamage_clamped(hp, damage) ==
    IF hp - damage < 0 THEN 0 ELSE WrapInt(hp - damage)

\* healthPoints -= damage
Character_takeDamage(hp, damage) == WrapInt(hp - damage)

\* healthPoints += healVolume
Character_heal(hp, healVolume) == WrapInt(hp + healVolume)

\* ------------------------------------------------------ item objects ---
\* Objects have an identity (obj); two objects with equal fields are still two
\* objects.  Weapon(damage) constructs a new object.
MaxObjs == 4

Construct(item, id) ==
    [name |-> item.name, isUsableOnce |-> item.isUsableOnce,
     damage |-> item.damage, obj |-> id]

CopyItem_alias(item, id) == item

\* Passing T by value, and storing it in std::map<std::string, T>, makes a
\* new object with the fields of the argument.
CopyItem(item, id) == [item EXCEPT !.obj = id]

\* The objects a container stores.
ObjectsIn(els) == {els[k].obj : k \in DOMAIN els}

\* ------------------------------------------------------------- state ---
VARIABLES
    \* SpecContainer: one ContainerWithMaxCapacity<T>
    elements,       \* std::map<std::string, T> elements
    maxCapacity,    \* int maxCapacity
    last,           \* history: the last call, its argument, outcome and pre-state
    nAdds,          \* history: successful adds so far (saturating)
    anyRemove,      \* history: whether a remove has succeeded
    \* SpecCharacter: one Character
    healthPoints,   \* int healthPoints
    chLast,         \* history: the last call on the character
    chPrev,         \* history: the call before it
    \* SpecRoles: the live Character objects and their role containers
    hp,             \* live character -> its healthPoints
    arsenal,        \* live WeaponUser -> elements of its Arsenal
    medicalBag,     \* live PotionUser -> elements of its MedicalBag
    spellBook,      \* live SpellUser -> elements of its SpellBook
    roleCap,        \* <<container, owner>> -> its maxCapacity
    vlast,          \* history: the last verb, its arguments and outcome
    \* SpecStory: one FantasyStory
    inputFile,      \* the lines of "input.txt", each a sequence of tokens
    in,             \* std::ifstream in
    out,            \* std::ofstream out
    actions,        \* int actions
    i,              \* the loop counter of startStoryTelling
    pc,             \* "loop" inside startStoryTelling, "done" after it
    current_command,\* std::string current_command
    characters,     \* std::map<std::string, std::shared_ptr<Character>>
    processed,      \* history: the lines handed to processAction, in order
    regLast,        \* history: the last createCharacter call and the registry before it
    \* SpecOwnership: item objects outside the containers
    held,           \* the item object the caller holds, or NULL
    nextObj         \* the identity the next constructed object gets

cvars == <<elements, maxCapacity, last, nAdds, anyRemove>>
hvars == <<healthPoints, chLast, chPrev>>
rvars == <<hp, arsenal, medicalBag, spellBook, roleCap, vlast>>
svars == <<inputFile, in, out, actions, i, pc, current_command, characters,
           processed, regLast>>
ovars == <<held, nextObj>>
vars == <<cvars, hvars, rvars, svars, ovars>>

NoCall == [op |-> "none", item |-> NULL, name |-> "", threw |-> "none",
           pre |-> EmptyMap, addsBefore |-> 0, removedBefore |-> FALSE]
NoChCall == [op |-> "none", d |-> 0, hpBefore |-> 0]

IdleContainer ==
    /\ elements = EmptyMap
    /\ maxCapacity = 0
    /\ last = NoCall
    /\ nAdds = 0
    /\ anyRemove = FALSE

IdleCharacter ==
    /\ healthPoints = 0
    /\ chLast = NoChCall
    /\ chPrev = NoChCall

NoVerb == [op |-> "none", actor |-> "", target |-> "", name |-> "",
           threw |-> "none", found |-> NULL, applied |-> 0]

IdleRoles ==
    /\ hp = EmptyMap
    /\ arsenal = EmptyMap
    /\ medicalBag = EmptyMap
    /\ spellBook = EmptyMap
    /\ roleCap = EmptyMap
    /\ vlast = NoVerb

\* A stream that was default-constructed and never opened.
ClosedStream == [is_open |-> FALSE, failbit |-> FALSE, line |-> 1, tok |-> 1]

NoCreate == [op |-> "none", line |-> << >>, pre |-> EmptyMap]

IdleStory ==
    /\ regLast = NoCreate
    /\ inputFile = << >>
    /\ in = ClosedStream
    /\ out = << >>
    /\ actions = 0
    /\ i = 0
    /\ pc = "done"
    /\ current_command = << >>
    /\ characters = EmptyMap
    /\ processed = << >>

IdleOwnership ==
    /\ held = NULL
    /\ nextObj = 0

\* ------------------------------------------------------ SpecContainer --
MaxAdds == MaxCap + 2

InitContainer ==
    /\ elements = EmptyMap
    /\ maxCapacity \in CapValues
    /\ last = NoCall
    /\ nAdds = 0
    /\ anyRemove = FALSE
    /\ IdleCharacter
    /\ IdleRoles
    /\ IdleStory
    /\ IdleOwnership

Call(op, item, name, threw) ==
    [op |-> op, item |-> item, name |-> name, threw |-> threw,
     pre |-> elements, addsBefore |-> nAdds, removedBefore |-> anyRemove]

Add(item) ==
    LET r == ContainerWithMaxCapacity_add(elements, maxCapacity, item)
    IN  /\ elements' = r.elements
        /\ last' = Call("add", item, getName(item), r.threw)
        /\ nAdds' = IF r.threw = "none" /\ nAdds < MaxAdds
                    THEN nAdds + 1 ELSE nAdds
        /\ UNCHANGED <<maxCapacity, anyRemove>>

RemoveT(item) ==
    LET r == Container_remove_T(elements, item)
    IN  /\ elements' = r.elements
        /\ last' = Call("remove_T", item, getName(item), r.threw)
        /\ anyRemove' = (anyRemove \/ r.threw = "none")
        /\ UNCHANGED <<maxCapacity, nAdds>>

RemoveString(name) ==
    LET r == Container_remove_string(elements, name)
    IN  /\ elements' = r.elements
        /\ last' = Call("remove_string", NULL, name, r.threw)
        /\ anyRemove' = (anyRemove \/ r.threw = "none")
        /\ UNCHANGED <<maxCapacity, nAdds>>

NextContainer ==
    \/ \E item \in Items : Add(item) /\ UNCHANGED <<hvars, rvars, svars, ovars>>
    \/ \E item \in Items : RemoveT(item) /\ UNCHANGED <<hvars, rvars, svars, ovars>>
    \/ \E name \in ItemNames : RemoveString(name) /\ UNCHANGED <<hvars, rvars, svars, ovars>>

SpecContainer == InitContainer /\ [][NextContainer]_vars

\* ------------------------------------------------------ SpecCharacter --
InitCharacter ==
    /\ healthPoints \in IntRange
    /\ chLast = NoChCall
    /\ chPrev = NoChCall
    /\ IdleContainer
    /\ IdleRoles
    /\ IdleStory
    /\ IdleOwnership

TakeDamage(d) ==
    /\ healthPoints' = Character_takeDamage(healthPoints, d)
    /\ chLast' = [op |-> "takeDamage", d |-> d, hpBefore |-> healthPoints]
    /\ chPrev' = chLast

Heal(d) ==
    /\ healthPoints' = Character_heal(healthPoints, d)
    /\ chLast' = [op |-> "heal", d |-> d, hpBefore |-> healthPoints]
    /\ chPrev' = chLast

NextCharacter ==
    \/ \E d \in IntRange : TakeDamage(d) /\ UNCHANGED <<cvars, rvars, svars, ovars>>
    \/ \E d \in IntRange : Heal(d) /\ UNCHANGED <<cvars, rvars, svars, ovars>>

SpecCharacter == InitCharacter /\ [][NextCharacter]_vars

\* ------------------------------------------------------------- roles ---
\* The objects of the role specifications.  SpecRoles: Fighter "A" (a
\* WeaponUser and a PotionUser) and Character "B".  SpecCast: Character "A"
\* and SpellUser "B".
CharNames == {"A", "B"}

\* Weapon(int) sets isUsableOnce(false).
Weapons == [name : {"a"}, isUsableOnce : {FALSE}, damage : {1, 2}]
Potions == [name : {"a"}, isUsableOnce : BOOLEAN, healValue : {1}]
\* allowedTargets holds characters; they are told apart by name.  The effect
\* of a spell is a damage of the given magnitude.
Spells == [name : {"a"}, isUsableOnce : {FALSE},
           allowedTargets : {{}, {"A"}, {"A", "B"}}, damage : {1}]

\* The names the verbs are called with; nothing is ever stored under "b".
VerbNames == {"a", "b"}

\* What a field of the NULL object may read as.
GarbageInts == {-1, 0, 1}

\* What the never-initialised maxCapacity of a role's container may hold.
RoleCapValues == {-1, 0, 1}
\* The values a read of the NULL object is drawn from: any of `garbage` when
\* find(name) misses; the read does not happen on a hit.
NullReads(els, name, garbage) ==
    IF Container_find_string(els, name) = NULL
    THEN garbage
    ELSE {CHOOSE g \in garbage : TRUE}

Restrict(f, S) == [k \in S |-> f[k]]

\* WeaponUser::attack up to its return: the health of the target after
\* target->takeDamage(arsenal.find(weapon).getDamage()).  On a miss find
\* returns the NULL object and getDamage() reads garbage.
WeaponUser_attack(els, targetHP, weapon, garbage) ==
    LET found == Container_find_string(els, weapon)
        damage == IF found = NULL THEN garbage ELSE found.damage
    IN  [threw |-> "none", found |-> found,
         hp |-> Character_takeDamage(targetHP, damage)]

\* PotionUser::drink: the health of the target after
\* target->heal(medicalBag.find(potion).getHealValue()).
PotionUser_drink(els, targetHP, potion, garbage) ==
    LET found == Container_find_string(els, potion)
        healValue == IF found = NULL THEN garbage ELSE found.healValue
    IN  [threw |-> "none", found |-> found,
         hp |-> Character_heal(targetHP, healValue)]

\* PhysicalItem::useCondition for a spell: the target is an allowed target.
PhysicalItem_useCondition(item, target) == target \in item.allowedTargets

\* PhysicalItem::use(user, target): the use-condition, then the effect, then
\* the after-use hook (spent: a use-once item is to leave its container).
PhysicalItem_use(item, target, targetHP) ==
    IF ~PhysicalItem_useCondition(item, target)
    THEN [threw |-> "PreconditionNotMet", hp |-> targetHP, spent |-> FALSE]
    ELSE [threw |-> "none", hp |-> Character_takeDamage(targetHP, item.damage),
          spent |-> item.isUsableOnce]

SpellUser_cast_direct(els, target, targetHP, name, nullSpell) ==
    LET found == Container_find_string(els, name)
        spell == IF found = NULL THEN nullSpell ELSE found
    IN  [threw |-> "none", found |-> found, spent |-> FALSE,
         hp |-> Character_takeDamage(targetHP, spell.damage)]

\* SpellUser::cast: Spell spell = spellBook.find(name); spell.use(*this, target).
\* On a miss the spell is the NULL object, whose fields read as garbage.
SpellUser_cast(els, target, targetHP, name, nullSpell) ==
    LET found == Container_find_string(els, name)
        spell == IF found = NULL THEN nullSpell ELSE found
        used == PhysicalItem_use(spell, target, targetHP)
    IN  [threw |-> used.threw, found |-> found, spent |-> used.spent,
         hp |-> used.hp]

\* ------------------------------------------------- SpecRoles, SpecCast --
InitRoles ==
    /\ hp \in [CharNames -> IntRange]
    /\ arsenal = [c \in {"A"} |-> EmptyMap]
    /\ medicalBag = [c \in {"A"} |-> EmptyMap]
    /\ spellBook = EmptyMap
    /\ roleCap \in [{<<"arsenal", "A">>, <<"medicalBag", "A">>} -> RoleCapValues]
    /\ vlast = NoVerb
    /\ IdleContainer
    /\ IdleCharacter
    /\ IdleStory
    /\ IdleOwnership

InitCast ==
    /\ hp \in [CharNames -> IntRange]
    /\ arsenal = EmptyMap
    /\ medicalBag = EmptyMap
    /\ spellBook = [c \in {"B"} |-> EmptyMap]
    /\ roleCap \in [{<<"spellBook", "B">>} -> RoleCapValues]
    /\ vlast = NoVerb
    /\ IdleContainer
    /\ IdleCharacter
    /\ IdleStory
    /\ IdleOwnership

Verb(op, actor, target, name, threw, found, applied) ==
    [op |-> op, actor |-> actor, target |-> target, name |-> name,
     threw |-> threw, found |-> found, applied |-> applied]

\* createItem for a weapon: insert it into the owner's arsenal.
CreateWeapon(owner, weapon) ==
    /\ owner \in DOMAIN arsenal
    /\ LET r == ContainerWithMaxCapacity_add(arsenal[owner],
                                             roleCap[<<"arsenal", owner>>], weapon)
       IN  /\ arsenal' = [arsenal EXCEPT ![owner] = r.elements]
           /\ vlast' = Verb("createWeapon", owner, "", getName(weapon), r.threw,
                            weapon, 0)
    /\ UNCHANGED <<hp, medicalBag, spellBook, roleCap>>

\* createItem for a potion: insert it into the owner's medical bag.
CreatePotion(owner, potion) ==
    /\ owner \in DOMAIN medicalBag
    /\ LET r == ContainerWithMaxCapacity_add(medicalBag[owner],
                                             roleCap[<<"medicalBag", owner>>], potion)
       IN  /\ medicalBag' = [medicalBag EXCEPT ![owner] = r.elements]
           /\ vlast' = Verb("createPotion", owner, "", getName(potion), r.threw,
                            potion, 0)
    /\ UNCHANGED <<hp, arsenal, spellBook, roleCap>>

\* createItem for a spell: insert it into the owner's spell book.
CreateSpell(owner, spell) ==
    /\ owner \in DOMAIN spellBook
    /\ LET r == ContainerWithMaxCapacity_add(spellBook[owner],
                                             roleCap[<<"spellBook", owner>>], spell)
       IN  /\ spellBook' = [spellBook EXCEPT ![owner] = r.elements]
           /\ vlast' = Verb("createSpell", owner, "", getName(spell), r.threw,
                            spell, 0)
    /\ UNCHANGED <<hp, arsenal, medicalBag, roleCap>>

\* actor.attack(std::move(target), weapon).  The target is passed as a
\* std::unique_ptr<Character> by value: the damage is applied and the target is
\* destroyed, with the containers it owns, when the call returns.
Attack(actor, target, weapon) ==
    /\ actor \in DOMAIN arsenal
    /\ target \in DOMAIN hp
    /\ \E garbage \in NullReads(arsenal[actor], weapon, GarbageInts) :
        LET r == WeaponUser_attack(arsenal[actor], hp[target], weapon, garbage)
        IN  vlast' = Verb("attack", actor, target, weapon, r.threw, r.found, r.hp)
    /\ hp' = Restrict(hp, DOMAIN hp \ {target})
    /\ arsenal' = Restrict(arsenal, DOMAIN arsenal \ {target})
    /\ medicalBag' = Restrict(medicalBag, DOMAIN medicalBag \ {target})
    /\ spellBook' = Restrict(spellBook, DOMAIN spellBook \ {target})
    /\ UNCHANGED roleCap

\* actor.drink(target, potion); the target is shared and lives on.
Drink(actor, target, potion) ==
    /\ actor \in DOMAIN medicalBag
    /\ target \in DOMAIN hp
    /\ \E garbage \in NullReads(medicalBag[actor], potion, GarbageInts) :
        LET r == PotionUser_drink(medicalBag[actor], hp[target], potion, garbage)
        IN  /\ hp' = [hp EXCEPT ![target] = r.hp]
            /\ vlast' = Verb("drink", actor, target, potion, r.threw, r.found, r.hp)
    /\ UNCHANGED <<arsenal, medicalBag, spellBook, roleCap>>

\* actor.cast(target, name); the target is shared and lives on.
Cast(actor, target, name) ==
    /\ actor \in DOMAIN spellBook
    /\ target \in DOMAIN hp
    /\ \E nullSpell \in NullReads(spellBook[actor], name, Spells) :
        LET r == SpellUser_cast(spellBook[actor], target, hp[target], name, nullSpell)
        IN  /\ hp' = [hp EXCEPT ![target] = r.hp]
            /\ spellBook' = IF r.spent
                            THEN [spellBook EXCEPT ![actor] = erase(@, name)]
                            ELSE spellBook
            /\ vlast' = Verb("cast", actor, target, name, r.threw, r.found, r.hp)
    /\ UNCHANGED <<arsenal, medicalBag, roleCap>>

NextRoles ==
    \/ \E c \in CharNames, w \in Weapons :
            CreateWeapon(c, w) /\ UNCHANGED <<cvars, hvars, svars, ovars>>
    \/ \E c \in CharNames, p \in Potions :
            CreatePotion(c, p) /\ UNCHANGED <<cvars, hvars, svars, ovars>>
    \/ \E c \in CharNames, t \in CharNames, n \in VerbNames :
            Attack(c, t, n) /\ UNCHANGED <<cvars, hvars, svars, ovars>>
    \/ \E c \in CharNames, t \in CharNames, n \in VerbNames :
            Drink(c, t, n) /\ UNCHANGED <<cvars, hvars, svars, ovars>>

SpecRoles == InitRoles /\ [][NextRoles]_vars

NextCast ==
    \/ \E c \in CharNames, s \in Spells :
            CreateSpell(c, s) /\ UNCHANGED <<cvars, hvars, svars, ovars>>
    \/ \E c \in CharNames, t \in CharNames, n \in VerbNames :
            Cast(c, t, n) /\ UNCHANGED <<cvars, hvars, svars, ovars>>

SpecCast == InitCast /\ [][NextCast]_vars

\* ------------------------------------------------------ FantasyStory --
\* A line of the input is a sequence of whitespace-separated tokens.
\* The numbers a token may spell.
StrToInt == [t \in {"0", "1", "2"} |-> CASE t = "0" -> 0 [] t = "1" -> 1 [] t = "2" -> 2]

\* The k-th token of a line; a std::string that no extraction filled is "".
Tok(str, k) == IF k <= Len(str) THEN str[k] ELSE ""

\* The position of the next token at or after (line, tok), or <<0, 0>> at the
\* end of the file: operator>> skips white space, line ends included.
RECURSIVE NextTok(_, _, _)
NextTok(file, line, tok) ==
    IF line > Len(file) THEN <<0, 0>>
    ELSE IF tok <= Len(file[line]) THEN <<line, tok>>
    ELSE NextTok(file, line + 1, 1)

\* in >> word: [in, value]; `old` is what the variable held.  A stream that
\* is not open or has failed extracts nothing and leaves the variable alone.
ifstream_extract_string(file, stream, old) ==
    IF ~stream.is_open \/ stream.failbit
    THEN [in |-> [stream EXCEPT !.failbit = TRUE], value |-> old]
    ELSE LET at == NextTok(file, stream.line, stream.tok)
         IN  IF at = <<0, 0>>
             THEN [in |-> [stream EXCEPT !.failbit = TRUE], value |-> old]
             ELSE [in |-> [stream EXCEPT !.line = at[1], !.tok = at[2] + 1],
                   value |-> file[at[1]][at[2]]]

\* in >> number: as above; a token that spells no number stores 0 and fails.
ifstream_extract_int(file, stream, old) ==
    IF ~stream.is_open \/ stream.failbit
    THEN [in |-> [stream EXCEPT !.failbit = TRUE], value |-> old]
    ELSE LET at == NextTok(file, stream.line, stream.tok)
         IN  IF at = <<0, 0>>
             THEN [in |-> [stream EXCEPT !.failbit = TRUE], value |-> old]
             ELSE IF file[at[1]][at[2]] \notin DOMAIN StrToInt
             THEN [in |-> [stream EXCEPT !.failbit = TRUE, !.line = at[1],
                                         !.tok = at[2]],
                   value |-> 0]
             ELSE [in |-> [stream EXCEPT !.line = at[1], !.tok = at[2] + 1],
                   value |-> StrToInt[file[at[1]][at[2]]]]

\* getline(in, str): [in, value]: the rest of the current line, the stream
\* moved past its end.  A stream that is not open or has failed leaves str.
getline(file, stream, old) ==
    IF ~stream.is_open \/ stream.failbit
    THEN [in |-> [stream EXCEPT !.failbit = TRUE], value |-> old]
    ELSE IF stream.line > Len(file)
    THEN [in |-> [stream EXCEPT !.failbit = TRUE], value |-> << >>]
    ELSE [in |-> [stream EXCEPT !.line = stream.line + 1, !.tok = 1],
          value |-> SubSeq(file[stream.line], stream.tok, Len(file[stream.line]))]

\* out << text << '\n': an unopened stream drops what is written to it.
ofstream_write(stream, text) == stream

\* std::map::operator[] assignment, which insert is not: it replaces the entry.
map_insert_orAssign(m, key, value) ==
    [k \in DOMAIN m \cup {key} |-> IF k = key THEN value ELSE m[k]]

\* std::map::insert: keeps the entry already stored under the key.
map_insert(m, key, value) ==
    IF key \in DOMAIN m THEN m
    ELSE [k \in DOMAIN m \cup {key} |-> IF k = key THEN value ELSE m[k]]

\* The Fighter that std::make_shared<Fighter>(healthPoints, name) builds; the
\* maxCapacity of its two containers is whatever the storage held.
Fighter(health, name, garbage) ==
    [type |-> "fighter", name |-> name, healthPoints |-> health,
     arsenal |-> EmptyMap, arsenalCap |-> garbage,
     medicalBag |-> EmptyMap, medicalBagCap |-> garbage]

\* FantasyStory::createCharacter(actionLine): type, name and healthPoints are
\* the next three tokens of the line.  Only "fighter" builds and registers a
\* character; the insert that ends the function names no value to insert.
FantasyStory_createCharacter(chars, actionLine, garbage) ==
    LET type == Tok(actionLine, 2)
        name == Tok(actionLine, 3)
        health == IF Len(actionLine) < 4 THEN garbage
                        ELSE IF actionLine[4] \in DOMAIN StrToInt
                        THEN StrToInt[actionLine[4]] ELSE 0
    IN  IF type = "fighter"
        THEN [threw |-> "none",
              characters |-> map_insert(chars, name,
                                        Fighter(health, name, garbage))]
        ELSE [threw |-> "none", characters |-> chars]

\* FantasyStory::createItem(actionLine): the line names the owner, the item
\* and its payload; the item goes into the owner's matching bounded container.
FantasyStory_createItem(chars, creation_type, actionLine) ==
    LET owner == Tok(actionLine, 2)
        item == [name |-> Tok(actionLine, 3), isUsableOnce |-> FALSE,
                 damage |-> IF Tok(actionLine, 4) \in DOMAIN StrToInt
                            THEN StrToInt[Tok(actionLine, 4)] ELSE 0]
    IN  IF owner \notin DOMAIN chars
        THEN [threw |-> "UnknownCharacter", characters |-> chars]
        ELSE LET r == ContainerWithMaxCapacity_add(chars[owner].arsenal,
                                                   chars[owner].arsenalCap, item)
             IN  [threw |-> r.threw,
                  characters |-> [chars EXCEPT ![owner].arsenal = r.elements]]

\* FantasyStory::processAction(actionLine): [threw, in, characters].  The
\* creation type is extracted from the file stream `in`, not from the line.
FantasyStory_processAction(file, stream, chars, actionLine, garbage) ==
    LET currentAction == Tok(actionLine, 1)
    IN  IF currentAction = "Create"
        THEN LET ct == ifstream_extract_string(file, stream, "")
                 r == IF ct.value = "character"
                      THEN FantasyStory_createCharacter(chars, actionLine, garbage)
                      ELSE FantasyStory_createItem(chars, ct.value, actionLine)
             IN  [threw |-> r.threw, in |-> ct.in, characters |-> r.characters]
        ELSE [threw |-> "none", in |-> stream, characters |-> chars]

\* ---------------------------------------------------------- SpecStory --
CommandLines ==
    {<<"Create", "fighter", "A", "1">>, <<"Create", "fighter", "A", "2">>,
     <<"Create", "weapon", "B", "1">>, <<"Show">>}

\* An input that declares N commands: the count on the first line, then the
\* N command lines.
InputFiles ==
    {<<<<"0">>>>}
        \cup {<<<<"1">>, c>> : c \in CommandLines}
        \cup {<<<<"2">>, c, d>> : c \in CommandLines, d \in CommandLines}

DeclaredCommands(file) == SubSeq(file, 2, Len(file))

\* FantasyStory::FantasyStory(): `in` and `out` are default-constructed and
\* nothing opens them; `in >> actions` runs on the unopened stream, so actions
\* keeps the value the storage held.
InitStory ==
    /\ inputFile \in InputFiles
    /\ \E garbage \in IntRange :
        LET r == ifstream_extract_int(inputFile, ClosedStream, garbage)
        IN  in = r.in /\ actions = r.value
    /\ out = << >>
    /\ i = 0
    /\ pc = "loop"
    /\ current_command = << >>
    /\ characters = EmptyMap
    /\ processed = << >>
    /\ regLast = NoCreate
    /\ IdleContainer
    /\ IdleCharacter
    /\ IdleRoles
    /\ IdleOwnership

\* One iteration of the loop of startStoryTelling: getline, processAction under
\* try, the catch writing err.what(), ++i.
StoryStep ==
    /\ pc = "loop"
    /\ i # actions
    /\ \E garbage \in GarbageInts :
        LET gl == getline(inputFile, in, current_command)
            pa == FantasyStory_processAction(inputFile, gl.in, characters,
                                             gl.value, garbage)
        IN  /\ current_command' = gl.value
            /\ processed' = Append(processed, gl.value)
            /\ in' = pa.in
            /\ characters' = pa.characters
            /\ out' = IF pa.threw # "none"
                      THEN ofstream_write(out, "Error caught") ELSE out
    /\ i' = WrapInt(i + 1)
    /\ UNCHANGED <<inputFile, actions, pc, regLast>>

\* The loop ends when i == actions.
StoryExit ==
    /\ pc = "loop"
    /\ i = actions
    /\ pc' = "done"
    /\ UNCHANGED <<inputFile, in, out, actions, i, current_command, characters,
                   processed, regLast>>

NextStory ==
    \/ StoryStep /\ UNCHANGED <<cvars, hvars, rvars, ovars>>
    \/ StoryExit /\ UNCHANGED <<cvars, hvars, rvars, ovars>>

SpecStory == InitStory /\ [][NextStory]_vars

\* ------------------------------------------------------ SpecOwnership --
\* Two fighters, each with its own Arsenal, and a caller that constructs
\* weapons and hands them to the arsenals.
OwnedWeapons == [name : {"a", "b"}, isUsableOnce : {FALSE}, damage : {1}]

InitOwnership ==
    /\ hp = [c \in CharNames |-> 0]
    /\ arsenal = [c \in CharNames |-> EmptyMap]
    /\ medicalBag = EmptyMap
    /\ spellBook = EmptyMap
    /\ roleCap \in [{<<"arsenal", c>> : c \in CharNames} -> RoleCapValues]
    /\ vlast = NoVerb
    /\ held = NULL
    /\ nextObj = 0
    /\ IdleContainer
    /\ IdleCharacter
    /\ IdleStory

\* Weapon w(damage): the caller constructs a weapon.
NewWeapon(weapon) ==
    /\ nextObj < MaxObjs
    /\ held' = Construct(weapon, nextObj)
    /\ nextObj' = nextObj + 1
    /\ UNCHANGED rvars

\* arsenal.add(w): the container stores its own copy of the argument.
AddHeld(owner) ==
    /\ held # NULL
    /\ owner \in DOMAIN arsenal
    /\ nextObj < MaxObjs
    /\ LET r == ContainerWithMaxCapacity_add(arsenal[owner],
                                             roleCap[<<"arsenal", owner>>],
                                             CopyItem(held, nextObj))
       IN  arsenal' = [arsenal EXCEPT ![owner] = r.elements]
    /\ nextObj' = nextObj + 1
    /\ UNCHANGED <<hp, medicalBag, spellBook, roleCap, vlast, held>>

\* arsenal.remove(name)
RemoveFrom(owner, name) ==
    /\ owner \in DOMAIN arsenal
    /\ LET r == Container_remove_string(arsenal[owner], name)
       IN  arsenal' = [arsenal EXCEPT ![owner] = r.elements]
    /\ UNCHANGED <<hp, medicalBag, spellBook, roleCap, vlast, held, nextObj>>

NextOwnership ==
    \/ \E w \in OwnedWeapons :
            NewWeapon(w) /\ UNCHANGED <<cvars, hvars, svars>>
    \/ \E c \in CharNames :
            AddHeld(c) /\ UNCHANGED <<cvars, hvars, svars>>
    \/ \E c \in CharNames, n \in VerbNames :
            RemoveFrom(c, n) /\ UNCHANGED <<cvars, hvars, svars>>
    \/ \E c \in CharNames, t \in CharNames, n \in VerbNames :
            Attack(c, t, n) /\ UNCHANGED <<cvars, hvars, svars, ovars>>

SpecOwnership == InitOwnership /\ [][NextOwnership]_vars

\* ------------------------------------------------------- SpecRegistry --
\* The lines createCharacter is called with: "Create <type> <name> <health>",
\* and one that ends before the health.
RegistryNames == {"A", "B"}
CharacterLines ==
    {<<"Create", type, name, health>> :
        type \in {"fighter", "wizard"}, name \in RegistryNames,
        health \in {"1", "2"}}
        \cup {<<"Create", "fighter", "A">>}

\* A FantasyStory whose registry is empty; createCharacter is a public member.
InitRegistry ==
    /\ IdleStory
    /\ IdleContainer
    /\ IdleCharacter
    /\ IdleRoles
    /\ IdleOwnership

\* story.createCharacter(actionLine)
CreateCharacter(actionLine) ==
    /\ \E garbage \in GarbageInts :
        LET r == FantasyStory_createCharacter(characters, actionLine, garbage)
        IN  characters' = r.characters
    /\ regLast' = [op |-> "createCharacter", line |-> actionLine,
                   pre |-> characters]
    /\ UNCHANGED <<inputFile, in, out, actions, i, pc, current_command,
                   processed>>

NextRegistry ==
    \E actionLine \in CharacterLines :
        CreateCharacter(actionLine) /\ UNCHANGED <<cvars, hvars, rvars, ovars>>

SpecRegistry == InitRegistry /\ [][NextRegistry]_vars

\* ------------------------------------------------- claims: containers --
Failed(call) == call.threw # "none"

\* C1: after any sequence of add and remove calls on a bounded container, the
\* number of stored elements is at most maxCapacity.
C1_CountAtMostMaxCapacity ==
    last.op # "none" => size(elements) <= maxCapacity

\* C2 (as stated): with maxCapacity = k, the add that follows k successful
\* adds fails with CapacityExceeded and leaves the contents as they were.
C2_AddAfterKAddsFails ==
    (last.op = "add" /\ ~last.removedBefore /\ last.addsBefore = maxCapacity)
        => (last.threw = "CapacityExceeded" /\ elements = last.pre)

\* C2 (amended): with maxCapacity = k, the add that follows k successful adds
\* of pairwise distinct names (so that k elements are stored) fails with
\* CapacityExceeded and leaves the contents as they were.
C2_AddAfterKDistinctAddsFails ==
    (/\ last.op = "add"
     /\ ~last.removedBefore
     /\ last.addsBefore = maxCapacity
     /\ size(last.pre) = last.addsBefore)
        => (last.threw = "CapacityExceeded" /\ elements = last.pre)

C2_Witness ==
    /\ last.op = "add"
    /\ ~last.removedBefore
    /\ maxCapacity = 2
    /\ last.addsBefore = 2
    /\ size(last.pre) = 2
    /\ last.threw = "CapacityExceeded"

\* C3: immediately after a successful add(i), find(i.getName()) returns an
\* item equal to i (same name, same payload).
C3_FindAfterAdd ==
    (last.op = "add" /\ ~Failed(last))
        => Container_find_string(elements, getName(last.item)) = last.item

\* The add replaced an entry of the same name and another payload.
C3_Witness ==
    /\ last.op = "add"
    /\ ~Failed(last)
    /\ getName(last.item) \in DOMAIN last.pre
    /\ last.pre[getName(last.item)] # last.item
    /\ Container_find_string(elements, getName(last.item)) = last.item

\* C4: removing a name that is not a key fails with NotFound and leaves the
\* container unchanged, whether the container is empty or not, and
\* remove(item) fails exactly when remove(item.getName()) fails.
C4_RemoveAbsentFails ==
    /\ (last.op \in {"remove_T", "remove_string"} /\ last.name \notin DOMAIN last.pre)
            => (last.threw = "NotFound" /\ elements = last.pre)
    /\ \A item \in Items :
            Failed(Container_remove_T(elements, item))
                <=> Failed(Container_remove_string(elements, getName(item)))

\* remove(name) of an absent name on a container that holds other names.
C4_Witness ==
    /\ last.op = "remove_string"
    /\ size(last.pre) > 0
    /\ last.name \notin DOMAIN last.pre
    /\ last.threw = "NotFound"
    /\ elements = last.pre

\* C10: every key of the element mapping is the name getName() returns for
\* the item stored under it.
C10_KeyIsName ==
    \A k \in DOMAIN elements : getName(elements[k]) = k

\* Two items stored, one of them after an overwrite and a remove happened.
C10_Witness ==
    /\ size(elements) = 2
    /\ last.op = "add"
    /\ ~Failed(last)
    /\ last.removedBefore
    /\ getName(last.item) \in DOMAIN last.pre

\* C13: the bounded add fails with CapacityExceeded exactly when the element
\* count equals maxCapacity at the time of the call, whether or not the item's
\* name is already a key; in every other case it does what Container::add does.
C13_BoundedAddFailsIffFull ==
    last.op = "add"
        => /\ Failed(last) <=> size(last.pre) = maxCapacity
           /\ Failed(last) => (last.threw = "CapacityExceeded" /\ elements = last.pre)
           /\ ~Failed(last) => elements = Container_add(last.pre, last.item)

\* A full container rejected the add of a name it already holds.
C13_Witness ==
    /\ last.op = "add"
    /\ size(last.pre) = maxCapacity
    /\ maxCapacity > 0
    /\ getName(last.item) \in DOMAIN last.pre
    /\ last.threw = "CapacityExceeded"
    /\ elements = last.pre

\* C14: an add of an item whose name is already a key replaces the entry
\* stored under that name with the new item, leaves the element count
\* unchanged, and leaves every other entry unchanged.
C14_AddOnCollisionReplacesOnly ==
    (last.op = "add" /\ ~Failed(last) /\ getName(last.item) \in DOMAIN last.pre)
        => /\ getName(last.item) \in DOMAIN elements
           /\ elements[getName(last.item)] = last.item
           /\ size(elements) = size(last.pre)
           /\ \A k \in DOMAIN last.pre \ {getName(last.item)} :
                    k \in DOMAIN elements /\ elements[k] = last.pre[k]

\* The add replaced a different payload while another name was stored.
C14_Witness ==
    /\ last.op = "add"
    /\ ~Failed(last)
    /\ getName(last.item) \in DOMAIN last.pre
    /\ last.pre[getName(last.item)] # last.item
    /\ size(last.pre) = 2
    /\ elements[getName(last.item)] = last.item
    /\ size(elements) = 2

\* -------------------------------------------------- claims: character --
\* C5: takeDamage(d) followed by heal(d) leaves getHP() at its value before
\* the two calls, for every int d, the bounds of the machine int included.
C5_DamageThenHealRestores ==
    (chPrev.op = "takeDamage" /\ chLast.op = "heal" /\ chLast.d = chPrev.d)
        => healthPoints = chPrev.hpBefore

\* The pair ran with d = INT_MIN on a health whose subtraction overflowed.
C5_Witness ==
    /\ chPrev.op = "takeDamage"
    /\ chLast.op = "heal"
    /\ chLast.d = chPrev.d
    /\ chPrev.d = IntMin
    /\ chPrev.hpBefore - chPrev.d > IntMax
    /\ healthPoints = chPrev.hpBefore

\* ------------------------------------------------------ claims: roles --
\* C6: after one successful drink of a use-once potion held in the actor's
\* medical bag the potion is no longer in the bag, and a later drink of the
\* same name by that actor fails with ItemSpent and changes no health.
C6_UseOncePotionIsSpent ==
    [][(/\ vlast.op = "drink"
        /\ vlast.threw = "none"
        /\ vlast.found # NULL
        /\ vlast.found.isUsableOnce)
            => /\ vlast.name \notin DOMAIN medicalBag[vlast.actor]
               /\ (/\ vlast'.op = "drink"
                   /\ vlast'.actor = vlast.actor
                   /\ vlast'.name = vlast.name)
                        => (vlast'.threw = "ItemSpent" /\ hp' = hp)]_vars

C8_VerbOnMissingNameFails ==
    [][(vlast'.op \in {"attack", "drink", "cast"} /\ vlast'.found = NULL)
            => /\ vlast'.threw = "NotFound"
               /\ hp' = hp
               /\ arsenal' = arsenal
               /\ medicalBag' = medicalBag
               /\ spellBook' = spellBook]_vars

\* A verb that found the named item in the actor's container and did not throw.
Succeeded(verb) == verb.threw = "none" /\ verb.found # NULL

\* C12: a successful attack(target, weaponName) leaves the target with its
\* previous health minus the damage of the weapon stored under weaponName in
\* the attacker's arsenal, and a successful drink(target, potionName) leaves
\* the target with its previous health plus that potion's healValue.
C12_VerbAppliesPayloadToTarget ==
    [][/\ (vlast'.op = "attack" /\ Succeeded(vlast'))
            => /\ vlast'.target \in DOMAIN hp'
               /\ hp'[vlast'.target]
                    = WrapInt(hp[vlast'.target] - vlast'.found.damage)
       /\ (vlast'.op = "drink" /\ Succeeded(vlast'))
            => /\ vlast'.target \in DOMAIN hp'
               /\ hp'[vlast'.target]
                    = WrapInt(hp[vlast'.target] + vlast'.found.healValue)]_vars

\* C15: a successful attack or drink leaves the contents of the actor's own
\* containers unchanged and changes the health of no character other than the
\* target.
C15_VerbFrame ==
    [][(vlast'.op \in {"attack", "drink"} /\ Succeeded(vlast'))
            => /\ vlast'.actor \in DOMAIN arsenal
                    => /\ vlast'.actor \in DOMAIN arsenal'
                       /\ arsenal'[vlast'.actor] = arsenal[vlast'.actor]
               /\ vlast'.actor \in DOMAIN medicalBag
                    => /\ vlast'.actor \in DOMAIN medicalBag'
                       /\ medicalBag'[vlast'.actor] = medicalBag[vlast'.actor]
               /\ \A c \in DOMAIN hp \ {vlast'.target} :
                    c \in DOMAIN hp' /\ hp'[c] = hp[c]]_vars

C9_AllCommandsProcessed ==
    pc = "done" => processed = DeclaredCommands(inputFile)

\* C16: creating a character whose name is already a key of the registry does
\* not replace the registered character: the registry still maps that name to
\* the character it held, the first created under it, with its health unchanged.
C16_CreateKeepsRegistered ==
    (regLast.op = "createCharacter" /\ Tok(regLast.line, 3) \in DOMAIN regLast.pre)
        => /\ Tok(regLast.line, 3) \in DOMAIN characters
           /\ characters[Tok(regLast.line, 3)] = regLast.pre[Tok(regLast.line, 3)]
           /\ characters[Tok(regLast.line, 3)].healthPoints
                = regLast.pre[Tok(regLast.line, 3)].healthPoints

\* A fighter was created under a registered name with another health.
C16_Witness ==
    /\ regLast.op = "createCharacter"
    /\ regLast.line = <<"Create", "fighter", "A", "2">>
    /\ "A" \in DOMAIN regLast.pre
    /\ regLast.pre["A"].healthPoints = 1
    /\ characters["A"].healthPoints = 1

====
